---- MODULE Spec2Model ----
(***************************************************************************)
(* Model of the velite field schemas (src/schemas/slug.ts, file.ts,        *)
(* image.ts, excerpt.ts) and of the build cache they share (Config.cache). *)
(*                                                                         *)
(* Strings are sequences of one-character strings, so that lengths, the    *)
(* slug pattern, the cache key concatenation and slice() are computed the  *)
(* way the code computes them.  An optional value (undefined / null) is    *)
(* the empty tuple, a present value x is <<x>>.                            *)
(***************************************************************************)
EXTENDS Integers, Sequences, FiniteSets, TLC

VARIABLES
    cache,          \* Config.cache: Map<string, any>, as a function key -> value
    task,           \* per file: the slug validation in flight (zod parseAsync)
    log,            \* completed slug validations, in completion order
    started,        \* number of slug validations started in this build
    obj,            \* the object validation with a file() and an image() field
    issues,         \* issues added to the object validation's context
    resolverCalls,  \* calls made to processAsset, in call order
    exIn,           \* the excerpt schema's last input
    exOut           \* the excerpt schema's last result

vars == <<cache, task, log, started, obj, issues, resolverCalls, exIn, exOut>>

slugVars == <<cache, task, log, started>>
assetVars == <<obj, issues, resolverCalls>>
excerptVars == <<exIn, exOut>>

None == <<>>
Some(x) == <<x>>

(***************************************************************************)
(* Bounds of the model.                                                    *)
(***************************************************************************)
MaxRuns == 3       \* slug validations started per build
MaxTextLen == 2    \* length of the enumerated excerpt texts

(***************************************************************************)
(* Characters.                                                             *)
(***************************************************************************)
Lower == {"a","b","c","d","e","f","g","h","i","j","k","l","m",
          "n","o","p","q","r","s","t","u","v","w","x","y","z"}
Upper == {"A","B","C","D","E","F","G","H","I","J","K","L","M",
          "N","O","P","Q","R","S","T","U","V","W","X","Y","Z"}
Digit == {"0","1","2","3","4","5","6","7","8","9"}

Repeat(c, n) == [i \in 1..n |-> c]

(***************************************************************************)
(* slug.ts                                                                 *)
(***************************************************************************)
SlugMin == 3
SlugMax == 200

\* [a-z0-9] under the /i flag
IsSlugChar(c) == c \in Lower \cup Upper \cup Digit

\* /^[a-z0-9]+(?:-[a-z0-9]+)*$/i : a non-empty run of alphanumerics, then
\* any number of groups made of one "-" followed by a non-empty run.
SlugRegex(s) ==
    /\ Len(s) > 0
    /\ \A i \in 1..Len(s) :
         \/ IsSlugChar(s[i])
         \/ /\ s[i] = "-"
            /\ i > 1
            /\ i < Len(s)
            /\ IsSlugChar(s[i + 1])

Msg(text) == [text |-> text, value |-> <<>>, file |-> "", at |-> ""]

Issue(code, message, path) == [code |-> code, message |-> message, path |-> path]

\* string().min(3).max(200).regex(...): ZodString runs every check and adds
\* one issue per failed check.
SlugChecks(value, path) ==
    (IF Len(value) < SlugMin
        THEN <<Issue("too_small", Msg("String must contain at least 3 character(s)"), path)>>
        ELSE <<>>)
    \o (IF Len(value) > SlugMax
        THEN <<Issue("too_big", Msg("String must contain at most 200 character(s)"), path)>>
        ELSE <<>>)
    \o (IF ~SlugRegex(value)
        THEN <<Issue("invalid_string", Msg("Invalid slug"), path)>>
        ELSE <<>>)

\* .refine(value => !reserved.includes(value), 'Reserved slug')
SlugReserved(value, reserved, path) ==
    IF value \in reserved
        THEN <<Issue("custom", Msg("Reserved slug"), path)>>
        ELSE <<>>

KeyPrefix == <<"s","c","h","e","m","a","s",":","s","l","u","g",":">>

\* `schemas:slug:${by}:${value}` with the namespace left out
M_SlugKeyNoNamespace(by, value) == KeyPrefix \o <<":">> \o value

\* `schemas:slug:${by}:${value}`
SlugKey(by, value) == KeyPrefix \o by \o <<":">> \o value

CacheHas(c, key) == key \in DOMAIN c

CacheSet(c, key, val) ==
    [k \in DOMAIN c \cup {key} |-> IF k = key THEN val ELSE c[k]]

\* `duplicate slug '${value}' in '${file.path}:${path.join('.')}'`
DuplicateMessage(value, filePath, path) ==
    [text |-> "duplicate slug '{value}' in '{file}:{path}'",
     value |-> value, file |-> filePath, at |-> path]

\* the has() check forgotten: every validation stores its path
M_SlugSuperRefineNoCheck(c, by, value, filePath, path) ==
    [cache |-> CacheSet(c, SlugKey(by, value), filePath), issues |-> <<>>]

\* the set() made unconditional: a collision overwrites the reservation
M_SlugSuperRefineOverwrite(c, by, value, filePath, path) ==
    [cache |-> CacheSet(c, SlugKey(by, value), filePath),
     issues |-> IF CacheHas(c, SlugKey(by, value))
                  THEN <<Issue("custom", DuplicateMessage(value, filePath, path), path)>>
                  ELSE <<>>]

\* the superRefine callback: one synchronous has / addIssue / set
SlugSuperRefine(c, by, value, filePath, path) ==
    IF CacheHas(c, SlugKey(by, value))
        THEN [cache |-> c,
              issues |-> <<Issue("custom", DuplicateMessage(value, filePath, path), path)>>]
        ELSE [cache |-> CacheSet(c, SlugKey(by, value), filePath),
              issues |-> <<>>]

(***************************************************************************)
(* file.ts and image.ts                                                    *)
(***************************************************************************)
StringVal(s) == [kind |-> "string", str |-> s]
NullVal == [kind |-> "null"]

\* the object under validation: { attachment: file(), cover: image() }
Fields == {"attachment", "cover"}
IsImageField(fld) == fld = "cover"
AssetFile == "posts/a.md"

\* config.output.name and config.output.base
OutputName == "[name]-[hash:8].[ext]"
OutputBase == "/static/"

\* the references the fields draw from
RelativeRefs == {"./cover.png", "./missing.png"}
NonRelativeRefs == {"https://cdn.example.com/a.png"}
Refs == RelativeRefs \cup NonRelativeRefs

\* isRelativePath of ../assets
IsRelativePath(ref) == ref \in RelativeRefs

\* what the promise returned by processAsset of ../assets can settle to: a
\* public URL (a file), an Image record (an image), or an error
ProcessAssetOutcomes(isImage) ==
    {[ok |-> TRUE,
      value |-> IF isImage
                  THEN [kind |-> "image", src |-> "/static/cover-0a1b2c3d.png",
                        width |-> 640, height |-> 480,
                        blurDataURL |-> "data:image/webp;base64,AA",
                        blurWidth |-> 8, blurHeight |-> 6]
                  ELSE StringVal("/static/cover-0a1b2c3d.png"),
      message |-> ""]}
    \cup {[ok |-> FALSE, value |-> NullVal, message |-> m] :
            m \in {"ENOENT: no such file or directory"}
                    \cup (IF isImage THEN {"Input buffer contains unsupported image format"} ELSE {})}

M_ImageAllowDefaultTrue == TRUE

\* { allowNonRelativePath = true }: FileOptions = {}
FileAllowDefault == TRUE
\* { allowNonRelativePath = false }: ImageOptions = {}
ImageAllowDefault == FALSE

OptionOr(opt, default) == IF opt = None THEN default ELSE opt[1]

AssetCall(value, filePath, isImage) ==
    [ref |-> value, from |-> filePath, name |-> OutputName, base |-> OutputBase,
     isImage |-> isImage]

\* the synchronous part of file()'s transform: the value itself, or a call
\* of processAsset whose promise is still pending
FileTransform(value, filePath, allowOpt) ==
    IF OptionOr(allowOpt, FileAllowDefault) /\ ~IsRelativePath(value)
        THEN [returned |-> TRUE, value |-> StringVal(value), calls |-> <<>>]
        ELSE [returned |-> FALSE, value |-> NullVal,
              calls |-> <<AssetCall(value, filePath, FALSE)>>]

\* the synchronous part of image()'s transform
ImageTransform(value, filePath, allowOpt) ==
    IF OptionOr(allowOpt, ImageAllowDefault) /\ ~IsRelativePath(value)
        THEN [returned |-> TRUE,
              value |-> [kind |-> "image", src |-> value, width |-> 0, height |-> 0,
                         blurDataURL |-> "", blurWidth |-> 0, blurHeight |-> 0],
              calls |-> <<>>]
        ELSE [returned |-> FALSE, value |-> NullVal,
              calls |-> <<AssetCall(value, filePath, TRUE)>>]

\* the .catch() left out: the rejection reaches the caller
M_FileSettleNoCatch(outcome, path) ==
    [fulfilled |-> outcome.ok, value |-> outcome.value, issues |-> <<>>]

\* processAsset(...).catch(err => { addIssue(...); return null }) in file():
\* what the transform's promise settles to, given processAsset's outcome
FileSettle(outcome, path) ==
    IF outcome.ok
        THEN [fulfilled |-> TRUE, value |-> outcome.value, issues |-> <<>>]
        ELSE [fulfilled |-> TRUE, value |-> NullVal,
              issues |-> <<Issue("custom", Msg(outcome.message), path)>>]

\* the same handler in image()
ImageSettle(outcome, path) ==
    IF outcome.ok
        THEN [fulfilled |-> TRUE, value |-> outcome.value, issues |-> <<>>]
        ELSE [fulfilled |-> TRUE, value |-> NullVal,
              issues |-> <<Issue("custom", Msg(outcome.message), path)>>]

IdleField == [state |-> "idle", input |-> "", value |-> NullVal, outcome |-> None]

IdleObject == [pc |-> "idle", fileOpt |-> None, imageOpt |-> None,
               fields |-> [fld \in Fields |-> IdleField]]

(***************************************************************************)
(* excerpt.ts                                                              *)
(***************************************************************************)
ExcerptDefaultLength == 260

Min(a, b) == IF a < b THEN a ELSE b
Max(a, b) == IF a > b THEN a ELSE b

\* value.slice(0, length) with the end one character short
M_SliceShort(s, end) ==
    SubSeq(s, 1, IF end < 0 THEN Max(Len(s) + end, 0) ELSE Min(Max(end - 1, 0), Len(s)))

\* String.prototype.slice(0, end) for an integer end: a negative end counts
\* from the end of the string
Slice(s, end) ==
    SubSeq(s, 1, IF end < 0 THEN Max(Len(s) + end, 0) ELSE Min(end, Len(s)))

\* the transform of excerpt({ length = 260 }): value and plain are optional
\* strings; a null value has no slice method and the call throws
Excerpt(value, plain, lengthOpt) ==
    LET v == IF value = None /\ plain # None THEN plain ELSE value
    IN  IF v = None
            THEN [status |-> "throw", value |-> <<>>]
            ELSE [status |-> "ok",
                  value |-> Slice(v[1], OptionOr(lengthOpt, ExcerptDefaultLength))]

(***************************************************************************)
(* Inputs of the slug validations.                                         *)
(***************************************************************************)
Files == {"posts/a.md", "posts/b.md"}

SlugField == "slug"

Namespaces == {<<"a">>, <<"a",":","b">>}

V_ok == <<"c","c","c">>
V_colon == <<"b",":","c","c","c">>
V_short == <<"a","b">>
V_reserved == <<"n","e","w">>
V_long == Repeat("x", SlugMax + 1)

SlugValues == {V_ok, V_colon, V_short, V_reserved, V_long}

ReservedWords == {V_reserved}

\* the (namespace, value) pairs the validations draw from
SlugInputs ==
    {<<ns, V_ok>> : ns \in Namespaces}
        \cup {<<<<"a">>, v>> : v \in SlugValues \ {V_ok}}

IdleTask == [pc |-> "idle", run |-> 0, by |-> <<>>, value |-> <<>>, issues |-> <<>>]

Init ==
    /\ cache = <<>>
    /\ task = [f \in Files |-> IdleTask]
    /\ log = <<>>
    /\ started = 0
    /\ obj = IdleObject
    /\ issues = <<>>
    /\ resolverCalls = <<>>
    /\ exIn = None
    /\ exOut = None

\* parseAsync(value): the ZodString checks run synchronously in the call; a
\* failed check marks the result dirty, it does not abort the parse.
StartValidation(f, by, value) ==
    /\ task[f].pc = "idle"
    /\ started < MaxRuns
    /\ started' = started + 1
    /\ task' = [task EXCEPT ![f] =
                  [pc |-> "refine", run |-> started + 1, by |-> by, value |-> value,
                   issues |-> SlugChecks(value, SlugField)]]
    /\ UNCHANGED <<cache, log, assetVars, excerptVars>>

\* the refine() effect runs in a later microtask, on a dirty value too
Refine(f) ==
    /\ task[f].pc = "refine"
    /\ task' = [task EXCEPT ![f].pc = "superRefine",
                            ![f].issues = @ \o SlugReserved(task[f].value, ReservedWords, SlugField)]
    /\ UNCHANGED <<cache, log, started, assetVars, excerptVars>>

\* the superRefine() effect runs in a later microtask, on a dirty value too;
\* the parse then settles and the task's result is recorded
SuperRefine(f) ==
    /\ task[f].pc = "superRefine"
    /\ LET r == SlugSuperRefine(cache, task[f].by, task[f].value, f, SlugField)
       IN /\ cache' = r.cache
          /\ log' = Append(log, [file |-> f, run |-> task[f].run,
                                 by |-> task[f].by, value |-> task[f].value,
                                 issues |-> task[f].issues \o r.issues])
    /\ task' = [task EXCEPT ![f] = IdleTask]
    /\ UNCHANGED <<started, assetVars, excerptVars>>

Next ==
    \/ \E f \in Files, inp \in SlugInputs : StartValidation(f, inp[1], inp[2])
    \/ \E f \in Files : Refine(f)
    \/ \E f \in Files : SuperRefine(f)

Spec == Init /\ [][Next]_vars

(***************************************************************************)
(* The object validation: both field transforms are called when the object *)
(* is parsed, each pending processAsset promise settles on its own, and    *)
(* the parse settles once every field has.                                 *)
(***************************************************************************)
FieldTransform(fld, value, fileOpt, imageOpt) ==
    IF IsImageField(fld)
        THEN ImageTransform(value, AssetFile, imageOpt)
        ELSE FileTransform(value, AssetFile, fileOpt)

StartObject(fileOpt, imageOpt, input) ==
    /\ obj.pc = "idle"
    /\ LET r == [fld \in Fields |-> FieldTransform(fld, input[fld], fileOpt, imageOpt)]
       IN /\ obj' = [pc |-> "running", fileOpt |-> fileOpt, imageOpt |-> imageOpt,
                     fields |-> [fld \in Fields |->
                        [state |-> IF r[fld].returned THEN "settled" ELSE "pending",
                         input |-> input[fld], value |-> r[fld].value, outcome |-> None]]]
          /\ resolverCalls' = r["attachment"].calls \o r["cover"].calls
    /\ UNCHANGED <<issues, slugVars, excerptVars>>

\* the processAsset promise of a field settles; a transform promise that
\* rejects makes the whole parse reject
FieldSettles(fld, outcome) ==
    /\ obj.pc = "running"
    /\ obj.fields[fld].state = "pending"
    /\ LET r == IF IsImageField(fld) THEN ImageSettle(outcome, fld) ELSE FileSettle(outcome, fld)
       IN IF r.fulfilled
            THEN /\ obj' = [obj EXCEPT !.fields[fld] =
                              [state |-> "settled", input |-> @.input, value |-> r.value,
                               outcome |-> Some(outcome)]]
                 /\ issues' = issues \o r.issues
            ELSE /\ obj' = [obj EXCEPT !.pc = "rejected"]
                 /\ UNCHANGED issues
    /\ UNCHANGED <<resolverCalls, slugVars, excerptVars>>

FinishObject ==
    /\ obj.pc = "running"
    /\ \A fld \in Fields : obj.fields[fld].state = "settled"
    /\ obj' = [obj EXCEPT !.pc = "done"]
    /\ UNCHANGED <<issues, resolverCalls, slugVars, excerptVars>>

NextAsset ==
    \/ \E fileOpt \in {None, Some(TRUE), Some(FALSE)},
          imageOpt \in {None, Some(TRUE), Some(FALSE)},
          input \in [Fields -> Refs] : StartObject(fileOpt, imageOpt, input)
    \/ \E fld \in Fields : \E outcome \in ProcessAssetOutcomes(IsImageField(fld)) :
          FieldSettles(fld, outcome)
    \/ FinishObject

SpecAsset == Init /\ [][NextAsset]_vars

(***************************************************************************)
(* The excerpt schema applied to one input.                                *)
(***************************************************************************)
Alphabet == {"a", "b"}

LongText == Repeat("a", ExcerptDefaultLength + 1)

Texts == UNION {[1..n -> Alphabet] : n \in 0..MaxTextLen} \cup {LongText}

OptionalTexts == {None} \cup {Some(t) : t \in Texts}

Lengths == {None} \cup {Some(n) : n \in -1..(MaxTextLen + 1)}

ExcerptTransform(value, plain, lengthOpt) ==
    /\ exIn = None
    /\ exIn' = Some([value |-> value, plain |-> plain, length |-> lengthOpt])
    /\ exOut' = Some(Excerpt(value, plain, lengthOpt))
    /\ UNCHANGED <<slugVars, assetVars>>

NextExcerpt ==
    \E value \in OptionalTexts, plain \in OptionalTexts, lengthOpt \in Lengths :
        ExcerptTransform(value, plain, lengthOpt)

SpecExcerpt == Init /\ [][NextExcerpt]_vars

(***************************************************************************)
(* Properties of the slug schema.                                          *)
(***************************************************************************)
\* the value passes min, max, the pattern and the reserved-word check
ValidSlugs ==
    {v \in SlugValues :
        SlugChecks(v, SlugField) = <<>> /\ SlugReserved(v, ReservedWords, SlugField) = <<>>}

ValidSlug(v) == v \in ValidSlugs

IsDuplicateIssue(iss) == iss.code = "custom" /\ iss.message.text = DuplicateMessage(<<>>, "", "").text

DuplicateIssues(e) == {k \in DOMAIN e.issues : IsDuplicateIssue(e.issues[k])}

EntryKey(e) == SlugKey(e.by, e.value)

\* index of the first completed validation that used the key of entry i
FirstOf(i) == CHOOSE j \in DOMAIN log :
                /\ EntryKey(log[j]) = EntryKey(log[i])
                /\ \A m \in DOMAIN log : EntryKey(log[m]) = EntryKey(log[i]) => j <= m

\* C1: when exactly two validations of one valid slug under one namespace
\* have completed against the build cache (and nothing else used that key),
\* exactly one of them has no issue and exactly one has a duplicate-slug
\* issue, whatever the interleaving of the two tasks was.
C1_ExactlyOneWins ==
    \A by \in Namespaces, v \in SlugValues :
        LET same == {i \in DOMAIN log : EntryKey(log[i]) = SlugKey(by, v)}
        IN  (/\ ValidSlug(v)
             /\ Cardinality(same) = 2
             /\ \A i \in same : log[i].by = by /\ log[i].value = v)
            => /\ Cardinality({i \in same : log[i].issues = <<>>}) = 1
               /\ Cardinality({i \in same : Cardinality(DuplicateIssues(log[i])) = 1}) = 1

\* two files validated the same valid slug concurrently, and the task that
\* started second reached the cache first
C1_Witness ==
    /\ Len(log) = 2
    /\ log[1].file # log[2].file
    /\ log[1].by = log[2].by /\ log[1].value = log[2].value
    /\ ValidSlug(log[1].value)
    /\ log[1].run = 2 /\ log[2].run = 1
    /\ log[1].issues = <<>>
    /\ DuplicateIssues(log[2]) # {}

\* C2 (as claimed): a duplicate-slug issue names the path of the file that
\* reserved the pair first, the path stored in the cache.
C2_DuplicateNamesPreviousFile ==
    \A i \in DOMAIN log : \A k \in DuplicateIssues(log[i]) :
        log[i].issues[k].message.file = log[FirstOf(i)].file

\* C3 (as claimed): a value that fails a check or is reserved gets an issue
\* and puts no key in the cache: every key of the cache comes from a
\* validation whose value passed the checks.
C3_RejectedSlugNotReserved ==
    /\ \A i \in DOMAIN log : ~ValidSlug(log[i].value) => log[i].issues # <<>>
    /\ \A key \in DOMAIN cache :
          \E i \in DOMAIN log : ValidSlug(log[i].value) /\ EntryKey(log[i]) = key

\* C4: the cache entry of every validated pair holds the path of the first
\* file that validated it: later validations of the pair, collisions
\* included, neither overwrite nor remove it.
C4_ReservationKept ==
    \A i \in DOMAIN log :
        /\ CacheHas(cache, EntryKey(log[i]))
        /\ cache[EntryKey(log[i])] = log[FirstOf(i)].file

\* a second file collided with a reservation and the entry still holds the
\* first file's path
C4_Witness ==
    \E i, j \in DOMAIN log :
        /\ i < j
        /\ i = FirstOf(j)
        /\ log[i].file # log[j].file
        /\ DuplicateIssues(log[j]) # {}
        /\ cache[EntryKey(log[j])] = log[i].file

\* C5 (as claimed): validating the same file with the same value and
\* namespace again, against the same cache, gives the first outcome again.
C5_RevalidationSameOutcome ==
    \A i, j \in DOMAIN log :
        (/\ i < j
         /\ log[i].file = log[j].file
         /\ log[i].by = log[j].by
         /\ log[i].value = log[j].value)
        => log[j].issues = log[i].issues

\* C6: uniqueness is per namespace.  A duplicate-slug issue for a value, in
\* a build that so far validated only that value, means the value was
\* validated before under the same namespace; and every validation of a
\* pair validated before under the same namespace has the issue.
C6_NamespacePartition ==
    /\ \A j \in DOMAIN log :
          (/\ DuplicateIssues(log[j]) # {}
           /\ \A i \in 1..(j - 1) : log[i].value = log[j].value)
          => \E i \in 1..(j - 1) : log[i].by = log[j].by
    /\ \A j \in DOMAIN log :
          (\E i \in 1..(j - 1) : log[i].by = log[j].by /\ log[i].value = log[j].value)
          => DuplicateIssues(log[j]) # {}

\* the same value went through two namespaces without an issue, and its
\* second validation under the first namespace has the duplicate issue
C6_Witness ==
    /\ Len(log) = 3
    /\ log[1].value = log[2].value /\ log[1].by # log[2].by
    /\ log[3].value = log[1].value /\ log[3].by = log[1].by
    /\ log[1].issues = <<>> /\ log[2].issues = <<>>
    /\ DuplicateIssues(log[3]) # {}

(***************************************************************************)
(* Properties of the file and image schemas.                               *)
(***************************************************************************)
IssuesAt(fld) == {k \in DOMAIN issues : issues[k].path = fld}

ResolverFailed(fld) ==
    /\ obj.fields[fld].outcome # None
    /\ ~obj.fields[fld].outcome[1].ok

\* C7: a processAsset failure never makes the validation reject; the field
\* whose resolver failed is null and has exactly one issue, carrying the
\* resolver's message; and once the object is done every other field has
\* settled with its own result.
C7_ResolverFailureIsAnIssue ==
    /\ obj.pc # "rejected"
    /\ \A fld \in Fields :
          ResolverFailed(fld) =>
            /\ obj.fields[fld].value = NullVal
            /\ Cardinality(IssuesAt(fld)) = 1
            /\ \A k \in IssuesAt(fld) :
                  /\ issues[k].code = "custom"
                  /\ issues[k].message.text = obj.fields[fld].outcome[1].message
    /\ \A fld \in Fields :
          (obj.pc = "done" /\ ~ResolverFailed(fld)) =>
            /\ obj.fields[fld].state = "settled"
            /\ IssuesAt(fld) = {}
            /\ obj.fields[fld].outcome # None
                  => obj.fields[fld].value = obj.fields[fld].outcome[1].value

\* the file reference failed to resolve, the image next to it resolved, and
\* the object validation completed
C7_Witness ==
    /\ obj.pc = "done"
    /\ ResolverFailed("attachment")
    /\ obj.fields["attachment"].value = NullVal
    /\ obj.fields["cover"].outcome # None
    /\ obj.fields["cover"].value.kind = "image"
    /\ Len(issues) = 1

CalledResolver(fld) ==
    \E k \in DOMAIN resolverCalls :
        /\ resolverCalls[k].isImage = IsImageField(fld)
        /\ resolverCalls[k].ref = obj.fields[fld].input

AllowsNonRelative(fld) ==
    IF IsImageField(fld) THEN obj.imageOpt \in {Some(TRUE)}
                         ELSE obj.fileOpt \in {None, Some(TRUE)}

\* C8 (as claimed): a non-relative path in a schema that allows it comes
\* back as the input value itself, in file() and image() alike, and the
\* resolver is not called.
C8_NonRelativeReturnedUnchanged ==
    \A fld \in Fields :
        (/\ obj.pc # "idle"
         /\ AllowsNonRelative(fld)
         /\ obj.fields[fld].input \in NonRelativeRefs)
        => /\ obj.fields[fld].value = StringVal(obj.fields[fld].input)
           /\ ~CalledResolver(fld)

\* C8 (amended): for such a path file() returns the input value itself and
\* image() returns an Image record whose src is the input value, with zero
\* sizes and an empty placeholder; neither calls the resolver.  file()
\* allows non-relative paths by default, image() does not: with default
\* options every image reference is passed to the resolver.
C8_NonRelativePassThrough ==
    /\ \A fld \in Fields :
          (/\ obj.pc # "idle"
           /\ AllowsNonRelative(fld)
           /\ obj.fields[fld].input \in NonRelativeRefs)
          => /\ obj.fields[fld].state = "settled"
             /\ ~CalledResolver(fld)
             /\ obj.fields[fld].outcome = None
             /\ IF IsImageField(fld)
                  THEN obj.fields[fld].value =
                         [kind |-> "image", src |-> obj.fields[fld].input,
                          width |-> 0, height |-> 0, blurDataURL |-> "",
                          blurWidth |-> 0, blurHeight |-> 0]
                  ELSE obj.fields[fld].value = StringVal(obj.fields[fld].input)
    /\ (obj.pc # "idle" /\ obj.imageOpt = None) => CalledResolver("cover")

\* a non-relative reference passed through an image() that allows it, and
\* through a file() with default options
C8_Witness ==
    /\ obj.pc = "done"
    /\ obj.imageOpt = Some(TRUE)
    /\ obj.fileOpt = None
    /\ obj.fields["cover"].input \in NonRelativeRefs
    /\ obj.fields["attachment"].input \in NonRelativeRefs
    /\ obj.fields["cover"].value.kind = "image"
    /\ obj.fields["attachment"].value.kind = "string"
    /\ resolverCalls = <<>>

(***************************************************************************)
(* Properties of the excerpt schema.                                       *)
(***************************************************************************)
\* the text the excerpt is taken from: the declared value when there is one,
\* the file's plain text otherwise
ExcerptText == IF exIn[1].value # None THEN exIn[1].value ELSE exIn[1].plain

ExcerptMax == IF exIn[1].length = None THEN 260 ELSE exIn[1].length[1]

\* C9: for a text T and a maximum length L >= 0 the result is made of the
\* first min(L, len(T)) characters of T.
C9_ExcerptIsPrefix ==
    (exOut # None /\ ExcerptText # None /\ ExcerptMax >= 0) =>
        /\ exOut[1].status = "ok"
        /\ Len(exOut[1].value) = Min(ExcerptMax, Len(ExcerptText[1]))
        /\ \A i \in 1..Len(exOut[1].value) : exOut[1].value[i] = ExcerptText[1][i]

\* the declared value is absent and the plain text is cut short
C9_Witness ==
    /\ exOut # None
    /\ exIn[1].value = None
    /\ exIn[1].plain = Some(<<"a", "b">>)
    /\ exIn[1].length = Some(1)
    /\ exOut[1].value = <<"a">>

\* C10 (as claimed): the excerpt schema returns a string for every
\* combination of declared value and plain text.
C10_ExcerptAlwaysSucceeds ==
    exOut # None => exOut[1].status = "ok"

====
